---- MODULE Spec2Model ----
(***************************************************************************)
(* Model of the certificate webhook (src/main.rs): the handler             *)
(* update_nodebalancer_cert, the validator validate_hook_request, the      *)
(* retry loop retry_operation, the secret reader get_secret_data and the   *)
(* NodeBalancer writer update_linode_config.  Several handler invocations  *)
(* run concurrently (actix workers); they interleave at their await        *)
(* points: the Kubernetes GET, the Linode PUT and the backoff sleep.       *)
(*                                                                         *)
(* Text is a sequence of code points / bytes.                              *)
(***************************************************************************)
EXTENDS Integers, Sequences, FiniteSets, TLC

VARIABLES
    pc,          \* per call: position of the handler
    request,     \* per call: HookRequest built from the webhook payload
    attempt,     \* per call: loop variable of the running retry_operation
    last_error,  \* per call: last_error of the running retry_operation
    material,    \* per call: (cert, key) bound by Ok((cert, key))
    response,    \* per call: the HttpResponse returned by the handler
    log,         \* per call and stage: result of every operation() invocation
    delays,      \* per call and stage: every backoff slept, in order
    lb_calls,    \* per call: every HTTP request sent to the Linode API
    store,       \* the Kubernetes secret prod/tls-cert
    changes,     \* number of times the secret was rewritten by its owner
    lb,          \* the NodeBalancer's configs, by config id
    state,       \* AppState: read-only configuration built in main
    read_secret, \* per call: the secret object its successful fetch read
    last_writer, \* the call whose PUT the NodeBalancer applied last
    health       \* the last answer of GET /health, and (history) the calls
                 \* that were in a backoff sleep when it was served

vars == <<pc, request, attempt, last_error, material, response, log, delays,
          lb_calls, store, changes, lb, state, read_secret, last_writer,
          health>>

(***************************************************************************)
(* Program constants                                                       *)
(***************************************************************************)
MAX_RETRIES == 3
RETRY_DELAY_MS == 500

(***************************************************************************)
(* Bounds of the model                                                     *)
(***************************************************************************)
MaxSecretChanges == 1

Calls == {"c1", "c2"}

(***************************************************************************)
(* Text values.  Code points: '-' 45, '.' 46, '/' 47, '_' 95, 0xE9 = 233   *)
(* (LATIN SMALL LETTER E WITH ACUTE).                                      *)
(***************************************************************************)
S_empty == <<>>
S_prod == <<112, 114, 111, 100>>                   \* "prod"
S_p_d == <<112, 95, 100>>                          \* "p_d"
S_e_acute == <<233>>                               \* U+00E9
S_tls_cert == <<116, 108, 115, 45, 99, 101, 114, 116>>   \* "tls-cert"
S_t_dot_c == <<116, 46, 99>>                       \* "t.c"
S_t_slash_c == <<116, 47, 99>>                     \* "t/c"

Namespaces == {S_empty, S_prod, S_p_d, S_e_acute}
SecretNames == {S_empty, S_tls_cert, S_t_dot_c, S_t_slash_c}

\* HookRequest { namespace, secret_name }
HookRequests == [namespace : Namespaces, secret_name : SecretNames]
NoRequest == [namespace |-> S_empty, secret_name |-> S_empty]

(***************************************************************************)
(* char::is_alphanumeric on the code points 0..255: Unicode Alphabetic or  *)
(* Numeric (Nd, Nl, No).                                                   *)
(***************************************************************************)
is_alphanumeric(c) ==
    \/ c \in 48..57 \/ c \in 65..90 \/ c \in 97..122
    \/ c \in {170, 181, 186}
    \/ c \in 192..214 \/ c \in 216..246 \/ c \in 248..255
    \/ c \in {178, 179, 185} \/ c \in 188..190

namespace_char_ok(c) == is_alphanumeric(c) \/ c = 45
secret_name_char_ok(c) == is_alphanumeric(c) \/ c = 45 \/ c = 46

\* validate_hook_request without its two is_empty checks.
validate_hook_request_no_empty_check(req) ==
    IF \E i \in 1..Len(req.namespace) : ~namespace_char_ok(req.namespace[i])
        THEN "namespace contains invalid characters"
    ELSE IF \E i \in 1..Len(req.secret_name) : ~secret_name_char_ok(req.secret_name[i])
        THEN "secret_name contains invalid characters"
    ELSE "ok"

\* validate_hook_request: "ok" for Ok(()), else the Err string.
validate_hook_request(req) ==
    IF req.namespace = <<>> THEN "namespace cannot be empty"
    ELSE IF req.secret_name = <<>> THEN "secret_name cannot be empty"
    ELSE IF \E i \in 1..Len(req.namespace) : ~namespace_char_ok(req.namespace[i])
        THEN "namespace contains invalid characters"
    ELSE IF \E i \in 1..Len(req.secret_name) : ~secret_name_char_ok(req.secret_name[i])
        THEN "secret_name contains invalid characters"
    ELSE "ok"

(***************************************************************************)
(* Result<T, Box<dyn Error>> of the two retried operations.  A fetch       *)
(* result carries (cert, key); an update result carries ().                *)
(***************************************************************************)
FetchOk(cert, key) == [ok |-> TRUE, err |-> "none", cert |-> cert, key |-> key]
FetchErr(e) == [ok |-> FALSE, err |-> e, cert |-> <<>>, key |-> <<>>]
UpdateOk == [ok |-> TRUE, err |-> "none"]
UpdateErr(e) == [ok |-> FALSE, err |-> e]

(***************************************************************************)
(* base64 STANDARD engine: alphabet A-Z a-z 0-9 + /, canonical padding     *)
(* required, non-zero trailing bits rejected.  '=' is 61.                  *)
(***************************************************************************)
b64_val(b) ==
    IF b \in 65..90 THEN b - 65
    ELSE IF b \in 97..122 THEN b - 71
    ELSE IF b \in 48..57 THEN b + 4
    ELSE IF b = 43 THEN 62
    ELSE IF b = 47 THEN 63
    ELSE -1

B64Fail == [ok |-> FALSE, bytes |-> <<>>]

RECURSIVE b64_quads(_)
b64_quads(s) ==
    IF s = <<>> THEN [ok |-> TRUE, bytes |-> <<>>]
    ELSE LET v1 == b64_val(s[1])
             v2 == b64_val(s[2])
             v3 == b64_val(s[3])
             v4 == b64_val(s[4])
             rest == SubSeq(s, 5, Len(s))
         IN  IF v1 < 0 \/ v2 < 0 THEN B64Fail
             ELSE IF s[3] = 61 THEN
                 IF rest = <<>> /\ s[4] = 61 /\ v2 % 16 = 0
                 THEN [ok |-> TRUE, bytes |-> <<v1 * 4 + v2 \div 16>>]
                 ELSE B64Fail
             ELSE IF v3 < 0 THEN B64Fail
             ELSE IF s[4] = 61 THEN
                 IF rest = <<>> /\ v3 % 4 = 0
                 THEN [ok |-> TRUE,
                       bytes |-> <<v1 * 4 + v2 \div 16,
                                   (v2 % 16) * 16 + v3 \div 4>>]
                 ELSE B64Fail
             ELSE IF v4 < 0 THEN B64Fail
             ELSE LET r == b64_quads(rest)
                  IN  IF r.ok
                      THEN [ok |-> TRUE,
                            bytes |-> <<v1 * 4 + v2 \div 16,
                                        (v2 % 16) * 16 + v3 \div 4,
                                        (v3 % 4) * 64 + v4>> \o r.bytes]
                      ELSE B64Fail

\* general_purpose::STANDARD.decode
base64_decode(s) == IF Len(s) % 4 # 0 THEN B64Fail ELSE b64_quads(s)

(***************************************************************************)
(* String::from_utf8: well-formed UTF-8 (no overlong forms, no surrogates, *)
(* nothing above U+10FFFF).                                                *)
(***************************************************************************)
is_cont(b) == b \in 128..191

RECURSIVE utf8_valid(_)
utf8_valid(b) ==
    IF b = <<>> THEN TRUE
    ELSE LET n == Len(b)
             b1 == b[1]
         IN  IF b1 < 128 THEN utf8_valid(SubSeq(b, 2, n))
             ELSE IF b1 \in 194..223 THEN
                 n >= 2 /\ is_cont(b[2]) /\ utf8_valid(SubSeq(b, 3, n))
             ELSE IF b1 \in 224..239 THEN
                 /\ n >= 3
                 /\ is_cont(b[2]) /\ is_cont(b[3])
                 /\ (b1 = 224 => b[2] >= 160)
                 /\ (b1 = 237 => b[2] <= 159)
                 /\ utf8_valid(SubSeq(b, 4, n))
             ELSE IF b1 \in 240..244 THEN
                 /\ n >= 4
                 /\ is_cont(b[2]) /\ is_cont(b[3]) /\ is_cont(b[4])
                 /\ (b1 = 240 => b[2] >= 144)
                 /\ (b1 = 244 => b[2] <= 143)
                 /\ utf8_valid(SubSeq(b, 5, n))
             ELSE FALSE

(***************************************************************************)
(* The Kubernetes secret store.  One secret, prod/tls-cert, may exist; its *)
(* data entries hold the stored (base64) form of the PEM text.             *)
(***************************************************************************)
B64_A == <<81, 81, 61, 61>>            \* "QQ==" -> "A"
B64_B == <<81, 103, 61, 61>>           \* "Qg==" -> "B"
B64_E == <<119, 54, 107, 61>>          \* "w6k=" -> C3 A9
B64_D == <<82, 65, 61, 61>>            \* "RA==" -> "D"
B64_bad == <<81, 33, 61, 61>>          \* "Q!==" : not base64
B64_FF == <<47, 119, 61, 61>>          \* "/w==" -> FF : not UTF-8

Secret(hc, crt, hk, key) ==
    [exists |-> TRUE, has_crt |-> hc, crt |-> crt, has_key |-> hk, key |-> key]
Absent ==
    [exists |-> FALSE, has_crt |-> FALSE, crt |-> <<>>,
     has_key |-> FALSE, key |-> <<>>]
SecretV1 == Secret(TRUE, B64_A, TRUE, B64_B)
SecretV2 == Secret(TRUE, B64_E, TRUE, B64_D)

SecretStates ==
    { Absent,
      Secret(FALSE, <<>>, TRUE, B64_B),
      Secret(TRUE, B64_A, FALSE, <<>>),
      Secret(TRUE, B64_bad, TRUE, B64_B),
      Secret(TRUE, B64_A, TRUE, B64_FF),
      SecretV1,
      SecretV2 }

SecretKey == [namespace |-> S_prod, secret_name |-> S_tls_cert]

KubeOk(secret) == [ok |-> TRUE, err |-> "none", secret |-> secret]
KubeErr(e) == [ok |-> FALSE, err |-> e, secret |-> Absent]

\* secrets.get(name).await against the store; `up` is false when the API
\* server cannot be reached.
kube_get(st, namespace, name, up) ==
    IF ~up THEN KubeErr("kube::Error::Service")
    ELSE IF [namespace |-> namespace, secret_name |-> name] = SecretKey
            /\ st.exists
        THEN KubeOk(st)
    ELSE KubeErr("kube::Error::Api(NotFound)")

\* get_secret_data with cert and key exchanged in the returned pair.
get_secret_data_swapped(reply) ==
    IF ~reply.ok THEN FetchErr(reply.err)
    ELSE IF ~reply.secret.has_crt THEN FetchErr("tls.crt not found in secret")
    ELSE IF ~reply.secret.has_key THEN FetchErr("tls.key not found in secret")
    ELSE LET c == base64_decode(reply.secret.crt)
             k == base64_decode(reply.secret.key)
         IN  IF ~c.ok THEN FetchErr("base64::DecodeError")
             ELSE IF ~utf8_valid(c.bytes) THEN FetchErr("FromUtf8Error")
             ELSE IF ~k.ok THEN FetchErr("base64::DecodeError")
             ELSE IF ~utf8_valid(k.bytes) THEN FetchErr("FromUtf8Error")
             ELSE FetchOk(k.bytes, c.bytes)

\* get_secret_data, given the reply of secrets.get(name).await.
get_secret_data(reply) ==
    IF ~reply.ok THEN FetchErr(reply.err)
    ELSE IF ~reply.secret.has_crt THEN FetchErr("tls.crt not found in secret")
    ELSE IF ~reply.secret.has_key THEN FetchErr("tls.key not found in secret")
    ELSE LET c == base64_decode(reply.secret.crt)
             k == base64_decode(reply.secret.key)
         IN  IF ~c.ok THEN FetchErr("base64::DecodeError")
             ELSE IF ~utf8_valid(c.bytes) THEN FetchErr("FromUtf8Error")
             ELSE IF ~k.ok THEN FetchErr("base64::DecodeError")
             ELSE IF ~utf8_valid(k.bytes) THEN FetchErr("FromUtf8Error")
             ELSE FetchOk(c.bytes, k.bytes)

(***************************************************************************)
(* retry_operation                                                         *)
(***************************************************************************)
\* The backoff with the exponent taken from attempt instead of attempt - 1.
backoff_exponent_off_by_one(k) == RETRY_DELAY_MS * 2 ^ k

\* RETRY_DELAY_MS * 2u64.pow(attempt - 1)
backoff(k) == RETRY_DELAY_MS * 2 ^ (k - 1)

\* The loop body without `return` in its Ok arm: the loop runs on.
retry_step_no_return(k, res, last) ==
    IF k < MAX_RETRIES
    THEN [done |-> FALSE, ok |-> FALSE,
          last_error |-> IF res.ok THEN last ELSE res.err,
          sleep |-> backoff(k)]
    ELSE [done |-> TRUE, ok |-> res.ok,
          last_error |-> IF res.ok THEN last ELSE res.err, sleep |-> 0]

\* The loop body keeping the first error (last_error.get_or_insert(e)).
retry_step_first_error(k, res, last) ==
    IF res.ok
    THEN [done |-> TRUE, ok |-> TRUE, last_error |-> last, sleep |-> 0]
    ELSE LET e == IF last = "none" THEN res.err ELSE last
         IN  IF k < MAX_RETRIES
             THEN [done |-> FALSE, ok |-> FALSE, last_error |-> e,
                   sleep |-> backoff(k)]
             ELSE [done |-> TRUE, ok |-> FALSE, last_error |-> e, sleep |-> 0]

\* The loop body with the bound tested as attempt <= MAX_RETRIES.
retry_step_one_more(k, res, last) ==
    IF res.ok
    THEN [done |-> TRUE, ok |-> TRUE, last_error |-> last, sleep |-> 0]
    ELSE IF k <= MAX_RETRIES
    THEN [done |-> FALSE, ok |-> FALSE, last_error |-> res.err,
          sleep |-> backoff(k)]
    ELSE [done |-> TRUE, ok |-> FALSE, last_error |-> res.err, sleep |-> 0]

\* A retry loop that gives up at once on an error of the secret's contents.
retry_step_terminal_errors(k, res, last) ==
    IF res.ok
    THEN [done |-> TRUE, ok |-> TRUE, last_error |-> last, sleep |-> 0]
    ELSE IF k < MAX_RETRIES /\ res.err = "kube::Error::Service"
    THEN [done |-> FALSE, ok |-> FALSE, last_error |-> res.err,
          sleep |-> backoff(k)]
    ELSE [done |-> TRUE, ok |-> FALSE, last_error |-> res.err, sleep |-> 0]

\* One iteration of `for attempt in 1..=MAX_RETRIES`, after operation().await
\* gave res: done = retry_operation returns (Ok on the Ok arm, Err(last_error)
\* when the loop is exhausted); otherwise it sleeps `sleep` ms and loops.
retry_step(k, res, last) ==
    IF res.ok
    THEN [done |-> TRUE, ok |-> TRUE, last_error |-> last, sleep |-> 0]
    ELSE IF k < MAX_RETRIES
    THEN [done |-> FALSE, ok |-> FALSE, last_error |-> res.err,
          sleep |-> backoff(k)]
    ELSE [done |-> TRUE, ok |-> FALSE, last_error |-> res.err, sleep |-> 0]

(***************************************************************************)
(* The Linode API: the configs of the one NodeBalancer, by config id.      *)
(***************************************************************************)
ConfigIds == {7, 8}
HttpsConfigIds == {7, 8, 9}

Config(port, protocol, cert, key) ==
    [exists |-> TRUE, port |-> port, protocol |-> protocol,
     ssl_cert |-> cert, ssl_key |-> key]
NoConfig ==
    [exists |-> FALSE, port |-> 0, protocol |-> "none",
     ssl_cert |-> <<>>, ssl_key |-> <<>>]

OldCert == <<79>>   \* "O"
OldKey == <<80>>    \* "P"

Tokens == {<<116>>, <<116, 10>>}    \* "t", "t\n"

\* HeaderValue::from_str: visible ASCII, space and tab only.
header_value_ok(s) == \A i \in 1..Len(s) : (s[i] \in 32..126) \/ s[i] = 9

\* format!(".../nodebalancers/{}/configs/{}", ...) with the NodeBalancer id
\* in both places.
update_url_wrong_config(nodebalancer_id, https_config_id) ==
    [method |-> "PUT", nodebalancer |-> nodebalancer_id,
     config |-> IF https_config_id = 7 THEN 8 ELSE 7]

\* client.put(&update_url): the request line.
update_url(nodebalancer_id, https_config_id) ==
    [method |-> "PUT", nodebalancer |-> nodebalancer_id,
     config |-> https_config_id]

\* The JSON body with the two values under each other's names.
payload_swapped(cert, key) ==
    [protocol |-> "https", ssl_cert |-> key, ssl_key |-> cert]

\* The JSON body of a create call (with its port) sent as the update body.
payload_with_port(cert, key) ==
    [protocol |-> "https", ssl_cert |-> cert, ssl_key |-> key, port |-> 443]

\* serde_json::json!({"protocol": "https", "ssl_cert": cert, "ssl_key": key})
payload(cert, key) ==
    [protocol |-> "https", ssl_cert |-> cert, ssl_key |-> key]

config_exists(lbs, url) == url.config \in ConfigIds /\ lbs[url.config].exists

\* What the remote side may do with one PUT: accept it and answer 2xx, accept
\* it while the answer is lost, refuse it with a non-2xx status (whose body
\* may fail to arrive), or never receive it.  A config that does not exist
\* is never written.
PutOutcomes(lbs, url) ==
    {[reply |-> "no_response", applied |-> FALSE],
     [reply |-> "status_error", applied |-> FALSE],
     [reply |-> "status_error_body_lost", applied |-> FALSE]}
    \cup (IF config_exists(lbs, url)
          THEN {[reply |-> "success", applied |-> TRUE],
                [reply |-> "no_response", applied |-> TRUE]}
          ELSE {})

\* The remote effect of an accepted PUT: the fields named in the body
\* replace those of the addressed config, everything else stays.
linode_put(lbs, url, body) ==
    [lbs EXCEPT ![url.config] =
        [f \in DOMAIN @ |-> IF f \in DOMAIN body THEN body[f] ELSE @[f]]]

\* update_linode_config without the is_success test.
update_result_no_status_check(reply) ==
    IF reply = "no_response" THEN UpdateErr("reqwest::Error")
    ELSE UpdateOk

\* The tail of update_linode_config: `.send().await?`, the status test and
\* `response.text().await?`.
update_result(reply) ==
    IF reply = "no_response" THEN UpdateErr("reqwest::Error")
    ELSE IF reply = "status_error_body_lost" THEN UpdateErr("reqwest::Error")
    ELSE IF reply = "status_error" THEN UpdateErr("Failed to update config")
    ELSE UpdateOk

(***************************************************************************)
(* update_nodebalancer_cert: the responses and the three matches           *)
(***************************************************************************)
HttpResponse(code, status, message, e) ==
    [code |-> code, status |-> status, message |-> message, error |-> e]
NoResponse == HttpResponse(0, "none", "none", "none")
NoMaterial == [cert |-> <<>>, key |-> <<>>]

\* `if let Err(e) = validate_hook_request(&request).await`
on_validation(v) ==
    IF v # "ok"
    THEN [next |-> "done",
          response |-> HttpResponse(400, "error", "Invalid request", v)]
    ELSE [next |-> "fetch", response |-> NoResponse]

\* `match cert_result` falling through to the update on Err.
on_cert_result_ignore_err(ok, e) ==
    [next |-> "update", response |-> NoResponse]

\* `match cert_result`
on_cert_result(ok, e) ==
    IF ok
    THEN [next |-> "update", response |-> NoResponse]
    ELSE [next |-> "done",
          response |-> HttpResponse(500, "error",
                           "Failed to retrieve certificate data", e)]

\* `match update_result` answering success on both arms.
on_update_result_always_ok(ok, e) ==
    [next |-> "done",
     response |-> HttpResponse(200, "success", "none", "none")]

\* `match update_result`
on_update_result(ok, e) ==
    IF ok
    THEN [next |-> "done",
          response |-> HttpResponse(200, "success", "none", "none")]
    ELSE [next |-> "done",
          response |-> HttpResponse(500, "error",
                           "Failed to update NodeBalancer", e)]

(***************************************************************************)
(* Scheduling.  The handlers are tasks of one cooperative executor per     *)
(* actix worker; a task holds its worker until it awaits.  The backoff is  *)
(* tokio::time::sleep(..).await, which gives the worker up for the whole   *)
(* delay (std::thread::sleep would keep it).  The calls of the model are   *)
(* served by the same worker.                                              *)
(***************************************************************************)
Sleeping == {"fetch_sleep", "update_sleep"}

\* A backoff that keeps the worker thread (a blocking sleep).
sleep_keeps_worker == FALSE

\* sleep(Duration::from_millis(backoff)).await yields to the executor.
sleep_yields == TRUE

\* A lock around the whole handler: a call runs only while no other call is
\* between its start and its answer.
Runnable_exclusive(c) == \A d \in Calls \ {c} : pc[d] \in {"idle", "done"}

\* The worker can run call c: no other task is holding it.
Runnable(c) == sleep_yields \/ \A d \in Calls \ {c} : pc[d] \notin Sleeping

\* The worker can run a new task.
Schedulable == sleep_yields \/ \A d \in Calls : pc[d] \notin Sleeping

\* One material slot shared by all calls instead of a local of each call.
captured_shared(c) == material["c1"]

\* An update closure that reads the secret again at each attempt.
captured_reread(c) ==
    LET r == get_secret_data(kube_get(store, request[c].namespace,
                                      request[c].secret_name, TRUE))
    IN  [cert |-> r.cert, key |-> r.key]

\* The (cert, key) borrowed by the update closure: the handler's own locals.
captured(c) == material[c]

(***************************************************************************)
(* Initial state: main has built AppState; no request is in flight.        *)
(***************************************************************************)
Init ==
    /\ pc = [c \in Calls |-> "idle"]
    /\ request = [c \in Calls |-> NoRequest]
    /\ attempt = [c \in Calls |-> 0]
    /\ last_error = [c \in Calls |-> "none"]
    /\ material = [c \in Calls |-> NoMaterial]
    /\ response = [c \in Calls |-> NoResponse]
    /\ log = [c \in Calls |-> [fetch |-> <<>>, update |-> <<>>]]
    /\ delays = [c \in Calls |-> [fetch |-> <<>>, update |-> <<>>]]
    /\ lb_calls = [c \in Calls |-> <<>>]
    /\ store \in SecretStates
    /\ changes = 0
    /\ \E c7 \in {NoConfig, Config(443, "https", OldCert, OldKey)} :
           lb = [i \in ConfigIds |->
                    IF i = 7 THEN c7 ELSE Config(80, "http", <<>>, <<>>)]
    /\ \E t \in Tokens, h \in HttpsConfigIds :
           state = [linode_token |-> t, nodebalancer_id |-> "nb",
                    https_config_id |-> h]
    /\ read_secret = [c \in Calls |-> Absent]
    /\ last_writer = "none"
    /\ health = [response |-> NoResponse, in_backoff |-> {}]

(***************************************************************************)
(* update_nodebalancer_cert up to its first await on the network: build    *)
(* the HookRequest, validate it, and either answer 400 or enter the first  *)
(* retry_operation.                                                        *)
(***************************************************************************)
StartSync(c, req) ==
    /\ pc[c] = "idle"
    /\ Runnable(c)
    /\ LET r == on_validation(validate_hook_request(req))
       IN  /\ request' = [request EXCEPT ![c] = req]
           /\ pc' = [pc EXCEPT ![c] = r.next]
           /\ response' = [response EXCEPT ![c] = r.response]
           /\ attempt' = [attempt EXCEPT ![c] = IF r.next = "fetch" THEN 1 ELSE 0]
    /\ UNCHANGED <<last_error, material, log, delays, lb_calls, store,
                   changes, lb, state, read_secret, last_writer, health>>

(***************************************************************************)
(* One invocation of the first closure (get_secret_data) and the loop body *)
(* around it; when retry_operation returns, `match cert_result`.           *)
(***************************************************************************)
FetchAttempt(c, up) ==
    /\ pc[c] = "fetch"
    /\ Runnable(c)
    /\ LET res == get_secret_data(
                      kube_get(store, request[c].namespace,
                               request[c].secret_name, up))
           step == retry_step(attempt[c], res, last_error[c])
           r == on_cert_result(step.ok, step.last_error)
       IN  /\ log' = [log EXCEPT ![c].fetch =
                         Append(@, IF res.ok THEN "ok" ELSE res.err)]
           /\ read_secret' = [read_secret EXCEPT ![c] =
                                 IF res.ok THEN store ELSE @]
           /\ IF step.done
              THEN /\ pc' = [pc EXCEPT ![c] = r.next]
                   /\ response' = [response EXCEPT ![c] = r.response]
                   /\ material' = [material EXCEPT ![c] =
                                      [cert |-> res.cert, key |-> res.key]]
                   /\ attempt' = [attempt EXCEPT ![c] =
                                      IF r.next = "update" THEN 1 ELSE @]
                   /\ last_error' = [last_error EXCEPT ![c] =
                                      IF r.next = "update" THEN "none"
                                      ELSE step.last_error]
                   /\ UNCHANGED delays
              ELSE /\ pc' = [pc EXCEPT ![c] = "fetch_sleep"]
                   /\ last_error' = [last_error EXCEPT ![c] = step.last_error]
                   /\ delays' = [delays EXCEPT ![c].fetch = Append(@, step.sleep)]
                   /\ UNCHANGED <<response, material, attempt>>
    /\ UNCHANGED <<request, lb_calls, store, changes, lb, state, last_writer,
                   health>>

(***************************************************************************)
(* One invocation of the second closure (update_linode_config) and the     *)
(* loop body around it; when retry_operation returns, `match               *)
(* update_result`.  A token that is no header value fails the closure      *)
(* before anything is sent.                                                *)
(***************************************************************************)
UpdateAttempt(c, out) ==
    /\ pc[c] = "update"
    /\ Runnable(c)
    /\ LET url == update_url(state.nodebalancer_id, state.https_config_id)
           body == payload(captured(c).cert, captured(c).key)
           sent == header_value_ok(state.linode_token)
           res == IF sent THEN update_result(out.reply)
                  ELSE UpdateErr("InvalidHeaderValue")
           step == retry_step(attempt[c], res, last_error[c])
           r == on_update_result(step.ok, step.last_error)
       IN  /\ IF sent
              THEN /\ out \in PutOutcomes(lb, url)
                   /\ lb_calls' = [lb_calls EXCEPT ![c] =
                          Append(@, [url |-> url, body |-> body,
                                     reply |-> out.reply,
                                     applied |-> out.applied,
                                     epoch |-> changes])]
                   /\ lb' = IF out.applied THEN linode_put(lb, url, body) ELSE lb
                   /\ last_writer' = IF out.applied THEN c ELSE last_writer
              ELSE /\ out = [reply |-> "no_response", applied |-> FALSE]
                   /\ UNCHANGED <<lb_calls, lb, last_writer>>
           /\ log' = [log EXCEPT ![c].update =
                         Append(@, IF res.ok THEN "ok" ELSE res.err)]
           /\ last_error' = [last_error EXCEPT ![c] = step.last_error]
           /\ IF step.done
              THEN /\ pc' = [pc EXCEPT ![c] = r.next]
                   /\ response' = [response EXCEPT ![c] = r.response]
                   /\ UNCHANGED delays
              ELSE /\ pc' = [pc EXCEPT ![c] = "update_sleep"]
                   /\ delays' = [delays EXCEPT ![c].update = Append(@, step.sleep)]
                   /\ UNCHANGED response
    /\ UNCHANGED <<request, attempt, material, store, changes, state,
                   read_secret, health>>

(***************************************************************************)
(* sleep(Duration::from_millis(backoff)).await returns: next iteration.    *)
(***************************************************************************)
Wake(c) ==
    /\ pc[c] \in {"fetch_sleep", "update_sleep"}
    /\ pc' = [pc EXCEPT ![c] = IF @ = "fetch_sleep" THEN "fetch" ELSE "update"]
    /\ attempt' = [attempt EXCEPT ![c] = @ + 1]
    /\ UNCHANGED <<request, last_error, material, response, log, delays,
                   lb_calls, store, changes, lb, state, read_secret,
                   last_writer, health>>

(***************************************************************************)
(* The owner of the secret (cert-manager) rewrites or deletes it.          *)
(***************************************************************************)
SecretChange(s) ==
    /\ changes < MaxSecretChanges
    /\ s # store
    /\ store' = s
    /\ changes' = changes + 1
    /\ UNCHANGED <<pc, request, attempt, last_error, material, response, log,
                   delays, lb_calls, lb, state, read_secret, last_writer,
                   health>>

(***************************************************************************)
(* health_check: GET /health is answered 200 "healthy", with no message,   *)
(* without touching any state of the sync calls.                           *)
(***************************************************************************)
HealthCheck ==
    /\ Schedulable
    /\ health' = [response |-> HttpResponse(200, "healthy", "none", "none"),
                  in_backoff |-> {c \in Calls : pc[c] \in Sleeping}]
    /\ UNCHANGED <<pc, request, attempt, last_error, material, response, log,
                   delays, lb_calls, store, changes, lb, state, read_secret,
                   last_writer>>

AllPutOutcomes ==
    [reply : {"success", "no_response", "status_error",
              "status_error_body_lost"}, applied : BOOLEAN]

\* One request in flight, against every behaviour of the two remote systems.
Next ==
    \/ \E req \in HookRequests : StartSync("c1", req)
    \/ \E up \in BOOLEAN : FetchAttempt("c1", up)
    \/ \E out \in AllPutOutcomes : UpdateAttempt("c1", out)
    \/ Wake("c1")
    \/ \E s \in SecretStates : SecretChange(s)

Spec == Init /\ [][Next]_vars

(***************************************************************************)
(* The executor polls every task that can run, and every remote call and   *)
(* every sleep returns: the Kubernetes GET, the Linode PUT (the client has *)
(* a 30 s timeout) and the backoff each take their step once enabled.      *)
(***************************************************************************)
Fairness ==
    /\ WF_vars(\E up \in BOOLEAN : FetchAttempt("c1", up))
    /\ WF_vars(\E out \in AllPutOutcomes : UpdateAttempt("c1", out))
    /\ WF_vars(Wake("c1"))

SpecFair == Spec /\ Fairness

(***************************************************************************)
(* Two requests in flight at once for the same secret, as two actix        *)
(* workers serve them: the deployment is the intended one (the secret      *)
(* exists, HTTPS_CONFIG_ID names the port-443 config, the token is a       *)
(* header value) and the secret's owner rotates it between its versions.   *)
(* The NodeBalancer accepts a PUT, accepts it while its answer is lost, or *)
(* refuses it.                                                             *)
(***************************************************************************)
InitConcurrent ==
    /\ Init
    /\ store = SecretV1
    /\ lb[7].exists
    /\ state.linode_token = <<116>>
    /\ state.https_config_id = 7

ConcurrentPutOutcomes ==
    {[reply |-> "success", applied |-> TRUE],
     [reply |-> "no_response", applied |-> TRUE],
     [reply |-> "status_error", applied |-> FALSE]}

NextConcurrent ==
    \/ \E c \in Calls : StartSync(c, SecretKey)
    \/ \E c \in Calls, up \in BOOLEAN : FetchAttempt(c, up)
    \/ \E c \in Calls, out \in ConcurrentPutOutcomes : UpdateAttempt(c, out)
    \/ \E c \in Calls : Wake(c)
    \/ \E s \in {SecretV1, SecretV2} : SecretChange(s)

SpecConcurrent == InitConcurrent /\ [][NextConcurrent]_vars

(***************************************************************************)
(* The service as a whole: two sync requests and health checks served by   *)
(* the same worker, the secret left alone, each remote call answered with  *)
(* success or an error.                                                    *)
(***************************************************************************)
ServicePutOutcomes ==
    {[reply |-> "success", applied |-> TRUE],
     [reply |-> "status_error", applied |-> FALSE]}

NextService ==
    \/ \E c \in Calls : StartSync(c, SecretKey)
    \/ \E c \in Calls, up \in BOOLEAN : FetchAttempt(c, up)
    \/ \E c \in Calls, out \in ServicePutOutcomes : UpdateAttempt(c, out)
    \/ \E c \in Calls : Wake(c)
    \/ HealthCheck

SpecService == InitConcurrent /\ [][NextService]_vars

(***************************************************************************)
(* Vocabulary of the properties                                            *)
(***************************************************************************)
Stages == {"fetch", "update"}
Last(l) == l[Len(l)]
AllFailed(l) == \A i \in 1..Len(l) : l[i] # "ok"
HasOk(l) == \E i \in 1..Len(l) : l[i] = "ok"
NumFailed(l) == Cardinality({i \in 1..Len(l) : l[i] # "ok"})

ValidationError(c) ==
    pc[c] = "done" /\ response[c].code = 400
    /\ response[c].message = "Invalid request"
FetchError(c) ==
    pc[c] = "done" /\ response[c].code = 500
    /\ response[c].message = "Failed to retrieve certificate data"
UpsertError(c) ==
    pc[c] = "done" /\ response[c].code = 500
    /\ response[c].message = "Failed to update NodeBalancer"
Success(c) ==
    pc[c] = "done" /\ response[c].code = 200 /\ response[c].status = "success"

\* What the retry_operation of a stage returned to the handler, if it has.
ReturnedOk(c, st) ==
    IF st = "fetch"
    THEN pc[c] \in {"update", "update_sleep"} \/ UpsertError(c) \/ Success(c)
    ELSE Success(c)
ReturnedErr(c, st) == IF st = "fetch" THEN FetchError(c) ELSE UpsertError(c)

ascii_alnum(ch) == ch \in 48..57 \/ ch \in 65..90 \/ ch \in 97..122
NamespaceInSet(t) == \A i \in 1..Len(t) : ascii_alnum(t[i]) \/ t[i] = 45
SecretNameInSet(t) ==
    \A i \in 1..Len(t) : ascii_alnum(t[i]) \/ t[i] = 45 \/ t[i] = 46

\* The PEM text the two well-formed secrets decode to, written out.
IsDecodedPair(cert, key) ==
    \/ cert = <<65>> /\ key = <<66>>
    \/ cert = <<195, 169>> /\ key = <<68>>
DecodedFrom(s, cert, key) ==
    \/ s = SecretV1 /\ cert = <<65>> /\ key = <<66>>
    \/ s = SecretV2 /\ cert = <<195, 169>> /\ key = <<68>>

HasPort443 == \E x \in ConfigIds : lb[x].exists /\ lb[x].port = 443
FirstTrySuccess(c) ==
    Success(c) /\ log[c].fetch = <<"ok">> /\ log[c].update = <<"ok">>
\* The first config of the listing (configs in id order) whose port is 443;
\* 0 when the listing has none.
Port443Configs == {x \in ConfigIds : lb[x].exists /\ lb[x].port = 443}
FirstPort443 ==
    IF Port443Configs = {} THEN 0
    ELSE CHOOSE x \in Port443Configs : \A y \in Port443Configs : x <= y
Puts(c) == {i \in 1..Len(lb_calls[c]) : lb_calls[c][i].url.method = "PUT"}
Creates(c) == {i \in 1..Len(lb_calls[c]) : lb_calls[c][i].url.method = "POST"}
Listings(c) == {i \in 1..Len(lb_calls[c]) : lb_calls[c][i].url.method = "GET"}

(***************************************************************************)
(* C1: a request whose namespace or secret_name is empty is answered with  *)
(* the validation error at once: no secret-store call, no load-balancer    *)
(* call, no retry and no backoff delay happens for it.                     *)
(***************************************************************************)
C1_EmptyFieldRejectedBeforeNetwork ==
    \A c \in Calls :
        (pc[c] # "idle"
         /\ (request[c].namespace = <<>> \/ request[c].secret_name = <<>>))
        => /\ ValidationError(c)
           /\ log[c].fetch = <<>> /\ log[c].update = <<>>
           /\ delays[c].fetch = <<>> /\ delays[c].update = <<>>
           /\ lb_calls[c] = <<>>
           /\ attempt[c] = 0

C1_Witness ==
    \E c \in Calls :
        /\ ValidationError(c)
        /\ request[c].namespace = S_prod
        /\ request[c].secret_name = <<>>

(***************************************************************************)
(* C2: validation passes only when both fields are non-empty and consist   *)
(* solely of characters of [A-Za-z0-9-] (namespace) and [A-Za-z0-9-.]      *)
(* (secret name): a request with a character outside those sets is         *)
(* answered with the validation error.                                     *)
(***************************************************************************)
C2_OnlyAsciiNamesPass ==
    \A c \in Calls :
        pc[c] # "idle"
        => (ValidationError(c)
            <=> ~(/\ request[c].namespace # <<>>
                  /\ request[c].secret_name # <<>>
                  /\ NamespaceInSet(request[c].namespace)
                  /\ SecretNameInSet(request[c].secret_name)))

(***************************************************************************)
(* C3: in either retry loop, with at most 3 attempts, a success is the     *)
(* last invocation: when the operation first succeeds on attempt j <= 3    *)
(* the loop returns that success having invoked the operation exactly j    *)
(* times, and no attempt follows a success.                                *)
(***************************************************************************)
C3_FirstSuccessReturned ==
    \A c \in Calls : \A st \in Stages :
        LET l == log[c][st]
        IN  /\ Len(l) <= 3
            /\ \A i \in 1..Len(l) : l[i] = "ok" => i = Len(l)
            /\ HasOk(l) => ReturnedOk(c, st)
            /\ ReturnedOk(c, st) => Len(l) >= 1 /\ Last(l) = "ok"

C3_Witness ==
    \E c \in Calls :
        /\ ReturnedOk(c, "fetch")
        /\ Len(log[c].fetch) = 3
        /\ log[c].fetch[1] # "ok" /\ log[c].fetch[2] # "ok"
        /\ log[c].fetch[3] = "ok"
        /\ ReturnedOk(c, "update")
        /\ Len(log[c].update) = 3

(***************************************************************************)
(* C4: in either retry loop, when every attempt fails the loop returns     *)
(* failure after exactly 3 invocations, and the error it returns is the    *)
(* error of the third attempt.                                             *)
(***************************************************************************)
C4_ExhaustionReturnsLastError ==
    \A c \in Calls : \A st \in Stages :
        LET l == log[c][st]
        IN  /\ Len(l) <= 3
            /\ (Len(l) = 3 /\ AllFailed(l)) => ReturnedErr(c, st)
            /\ ReturnedErr(c, st)
               => /\ Len(l) = 3
                  /\ AllFailed(l)
                  /\ response[c].error = l[3]
                  /\ last_error[c] = l[3]

C4_Witness ==
    \E c \in Calls :
        /\ ReturnedErr(c, "fetch")
        /\ log[c].fetch[1] # log[c].fetch[3]
        /\ log[c].fetch[2] # log[c].fetch[3]

(***************************************************************************)
(* C5: the delay slept after failed attempt k, before attempt k + 1, is    *)
(* 500 * 2^(k-1) ms: 500 after attempt 1, 1000 after attempt 2; nothing is *)
(* slept before attempt 1 nor after the third failed attempt, so a loop    *)
(* sleeps at most twice and its delays double.                             *)
(***************************************************************************)
C5_BackoffDoubles ==
    \A c \in Calls : \A st \in Stages :
        LET l == log[c][st]
            d == delays[c][st]
        IN  /\ Len(d) <= 2
            /\ Len(d) >= 1 => d[1] = 500
            /\ Len(d) >= 2 => d[2] = 1000 /\ d[2] = 2 * d[1]
            /\ Len(d) = (IF NumFailed(l) <= 2 THEN NumFailed(l) ELSE 2)
            /\ l = <<>> => d = <<>>

C5_Witness ==
    \E c \in Calls :
        /\ delays[c].fetch = <<500, 1000>>
        /\ Len(log[c].fetch) = 3
        /\ delays[c].update = <<500, 1000>>
        /\ Len(log[c].update) = 3
        /\ AllFailed(log[c].update)
        /\ pc[c] = "done"

(***************************************************************************)
(* C6: when the secret fetch fails on all 3 attempts the call answers with *)
(* the fetch error after exactly 3 fetch attempts and two backoff waits    *)
(* and never calls the load-balancer API; no load-balancer call of a call  *)
(* happens before one of its fetch attempts has succeeded.                 *)
(***************************************************************************)
C6_NoBalancerCallWithoutFetch ==
    \A c \in Calls :
        /\ (Len(log[c].fetch) = 3 /\ AllFailed(log[c].fetch))
           => /\ FetchError(c)
              /\ Len(delays[c].fetch) = 2
              /\ lb_calls[c] = <<>>
              /\ log[c].update = <<>>
        /\ FetchError(c) => Len(log[c].fetch) = 3 /\ AllFailed(log[c].fetch)
        /\ (lb_calls[c] # <<>> \/ log[c].update # <<>>) => HasOk(log[c].fetch)

C6_Witness ==
    \E c \in Calls :
        /\ FetchError(c)
        /\ log[c].fetch = <<"kube::Error::Api(NotFound)",
                            "kube::Error::Api(NotFound)",
                            "kube::Error::Api(NotFound)">>
        /\ delays[c].fetch = <<500, 1000>>

(***************************************************************************)
(* C7: a call answers success only if, in that call, validation passed, a  *)
(* fetch attempt succeeded and the last load-balancer write, issued after  *)
(* it, was answered with a success status; when the update fails on all 3  *)
(* attempts the answer is the upsert error, never success.                 *)
(***************************************************************************)
C7_SuccessOnlyAfterAcceptedWrite ==
    \A c \in Calls :
        /\ Success(c)
           => /\ request[c].namespace # <<>> /\ request[c].secret_name # <<>>
              /\ HasOk(log[c].fetch)
              /\ IsDecodedPair(material[c].cert, material[c].key)
              /\ lb_calls[c] # <<>>
              /\ Last(lb_calls[c]).reply = "success"
              /\ Last(lb_calls[c]).applied
              /\ Last(lb_calls[c]).url.method \in {"PUT", "POST"}
              /\ Last(log[c].update) = "ok"
        /\ (Len(log[c].update) = 3 /\ AllFailed(log[c].update))
           => UpsertError(c) /\ ~Success(c)

C7_Witness ==
    \E c \in Calls :
        /\ Success(c)
        /\ Len(lb_calls[c]) = 3
        /\ lb_calls[c][1].reply = "status_error"
        /\ lb_calls[c][2].reply = "no_response"

C7_WitnessExhausted ==
    \E c \in Calls : UpsertError(c) /\ Len(lb_calls[c]) = 3

C11_WitnessNoPort443 ==
    \E c \in Calls : Success(c) /\ FirstPort443 = 0

(***************************************************************************)
(* C12: when every remote call returns, every sync call that was started   *)
(* ends, and it ends with exactly one of the four outcomes (success,       *)
(* validation error, fetch error, upsert error), which is final: a call    *)
(* that has answered makes no further attempt, and a retry loop that is    *)
(* exhausted after 3 attempts has reported its failure.                    *)
(***************************************************************************)
Outcomes(c) ==
    {o \in {"success", "validationError", "fetchError", "upsertError"} :
        \/ o = "success" /\ Success(c)
        \/ o = "validationError" /\ ValidationError(c)
        \/ o = "fetchError" /\ FetchError(c)
        \/ o = "upsertError" /\ UpsertError(c)}

C12_EveryCallTerminates ==
    /\ [](\A c \in Calls :
            /\ Cardinality(Outcomes(c)) = (IF pc[c] = "done" THEN 1 ELSE 0)
            /\ pc[c] # "done" => response[c] = NoResponse
            /\ \A st \in Stages :
                  /\ Len(log[c][st]) <= 3
                  /\ (Len(log[c][st]) = 3 /\ AllFailed(log[c][st]))
                     => ReturnedErr(c, st))
    /\ [][\A c \in Calls :
            pc[c] = "done"
            => /\ pc'[c] = "done"
               /\ response'[c] = response[c]
               /\ log'[c] = log[c]
               /\ lb_calls'[c] = lb_calls[c]]_vars
    /\ \A c \in Calls : (pc[c] # "idle") ~> (pc[c] = "done")

C12_Witness ==
    \E c \in Calls :
        /\ UpsertError(c)
        /\ Len(log[c].fetch) = 3
        /\ Len(log[c].update) = 3
        /\ delays[c].fetch = <<500, 1000>>
        /\ delays[c].update = <<500, 1000>>

(***************************************************************************)
(* C13: an update changes only the certificate, the private key and the    *)
(* protocol (set to https) of the config it addresses: that config's       *)
(* identifier and port, and every other config of the NodeBalancer, are    *)
(* left as they were.                                                      *)
(***************************************************************************)
C13_UpdateChangesOnlyTlsFields ==
    [][\A x \in ConfigIds :
          /\ lb'[x].exists = lb[x].exists
          /\ lb'[x].port = lb[x].port
          /\ x # state.https_config_id => lb'[x] = lb[x]
          /\ lb'[x] # lb[x]
             => /\ lb'[x].protocol = "https"
                /\ \E c \in Calls :
                      /\ pc[c] = "update"
                      /\ lb'[x].ssl_cert = material[c].cert
                      /\ lb'[x].ssl_key = material[c].key]_vars

C13_Witness ==
    /\ state.https_config_id = 8
    /\ lb[8] = Config(80, "https", <<65>>, <<66>>)
    /\ lb[7] = Config(443, "https", OldCert, OldKey)
    /\ \E c \in Calls : Len(lb_calls[c]) = 1 /\ lb_calls[c][1].applied

(***************************************************************************)
(* C14: every fetch error is retried alike.  A fetch attempt that fails,   *)
(* whatever the error (secret missing, tls.crt or tls.key missing, base64  *)
(* or UTF-8 decoding, transport), is followed by a backoff and another     *)
(* attempt unless it was the third; so the fetch-error outcome is returned *)
(* only after 3 failed attempts and the delays 500 and 1000, also for a    *)
(* secret that is malformed throughout.                                    *)
(***************************************************************************)
FetchErrorKinds ==
    {"kube::Error::Service", "kube::Error::Api(NotFound)",
     "tls.crt not found in secret", "tls.key not found in secret",
     "base64::DecodeError", "FromUtf8Error"}

C14_AllFetchErrorsRetried ==
    \A c \in Calls :
        /\ \A i \in 1..Len(log[c].fetch) :
              log[c].fetch[i] # "ok"
              => /\ log[c].fetch[i] \in FetchErrorKinds
                 /\ i < 3 => /\ Len(delays[c].fetch) >= i
                             /\ delays[c].fetch[i] = 500 * 2^(i - 1)
                             /\ ~FetchError(c) \/ Len(log[c].fetch) > i
        /\ FetchError(c)
           => /\ Len(log[c].fetch) = 3
              /\ AllFailed(log[c].fetch)
              /\ delays[c].fetch = <<500, 1000>>
              /\ response[c].error = log[c].fetch[3]

C14_Witness ==
    \E c \in Calls :
        /\ FetchError(c)
        /\ log[c].fetch = <<"tls.key not found in secret",
                            "base64::DecodeError", "base64::DecodeError">>
        /\ delays[c].fetch = <<500, 1000>>

(***************************************************************************)
(* C15: no rollback.  When the NodeBalancer applied a write of the call    *)
(* but the call saw that attempt and all later ones fail, the call answers *)
(* with the update error, everything it sent was the same PUT of its       *)
(* material (no compensating call, at most 3 requests), the config keeps   *)
(* the new material, and nothing more is sent once the call has answered.  *)
(***************************************************************************)
AppliedButFailed(c) ==
    /\ pc[c] = "done"
    /\ Len(log[c].update) = 3
    /\ AllFailed(log[c].update)
    /\ \E i \in 1..Len(lb_calls[c]) : lb_calls[c][i].applied

C15_NoRollback ==
    /\ [](\A c \in Calls :
             AppliedButFailed(c)
             => /\ UpsertError(c)
                /\ response[c].error = log[c].update[3]
                /\ Len(lb_calls[c]) <= 3
                /\ \A i \in 1..Len(lb_calls[c]) :
                      /\ lb_calls[c][i].url.method = "PUT"
                      /\ lb_calls[c][i].url.config = state.https_config_id
                      /\ lb_calls[c][i].body.ssl_cert = material[c].cert
                      /\ lb_calls[c][i].body.ssl_key = material[c].key
                /\ lb[state.https_config_id].ssl_cert = material[c].cert
                /\ lb[state.https_config_id].ssl_key = material[c].key)
    /\ [][\A c \in Calls :
             pc[c] = "done" => lb_calls'[c] = lb_calls[c] /\ lb' = lb]_vars

C15_Witness ==
    \E c \in Calls :
        /\ UpsertError(c)
        /\ AppliedButFailed(c)
        /\ lb_calls[c][1].applied /\ lb_calls[c][1].reply = "no_response"
        /\ lb[state.https_config_id].ssl_cert = <<65>>
        /\ lb[state.https_config_id].ssl_cert # OldCert

(***************************************************************************)
(* C16: two sync calls for the same config are not mutually excluded.      *)
(* While one call is between its start and its answer the other can start  *)
(* and take each of its steps; and when both have answered success the     *)
(* config holds the material of the call whose PUT the NodeBalancer        *)
(* applied last, whichever secret read that material came from.            *)
(***************************************************************************)
InFlight(c) == pc[c] \notin {"idle", "done"}

C16_LastWriterWins ==
    /\ \A c \in Calls : \A d \in Calls \ {c} :
          InFlight(c)
          => /\ pc[d] = "idle" => ENABLED StartSync(d, SecretKey)
             /\ pc[d] = "fetch" => ENABLED FetchAttempt(d, TRUE)
             /\ pc[d] = "update"
                => \E out \in ConcurrentPutOutcomes : ENABLED UpdateAttempt(d, out)
             /\ pc[d] \in Sleeping => ENABLED Wake(d)
    /\ (\A c \in Calls : Success(c))
       => /\ last_writer \in Calls
          /\ lb[state.https_config_id].ssl_cert = material[last_writer].cert
          /\ lb[state.https_config_id].ssl_key = material[last_writer].key

\* Both calls succeeded; c1 read the secret before it changed, c2 after; the
\* PUT of c1 was applied last and the config holds the older material.
C16_Witness ==
    /\ Success("c1") /\ Success("c2")
    /\ read_secret["c1"] = SecretV1 /\ read_secret["c2"] = SecretV2
    /\ store = SecretV2
    /\ last_writer = "c1"
    /\ lb[state.https_config_id].ssl_cert = <<65>>
    /\ lb[state.https_config_id].ssl_key = <<66>>

(***************************************************************************)
(* C17: concurrent sync calls share no mutable state.  The shared data     *)
(* (token, NodeBalancer id, config id) never changes; a step changes the   *)
(* request, material, attempt counter, last error, logs, delays and answer *)
(* of at most one call; every PUT of a call carries the certificate and    *)
(* key decoded from the one secret that call read; and each call has its   *)
(* own 3 attempts per stage, whatever the other call's failures.           *)
(***************************************************************************)
Locals(c) ==
    <<pc[c], request[c], attempt[c], last_error[c], material[c], response[c],
      log[c], delays[c], lb_calls[c], read_secret[c]>>

C17_NoSharedMutableState ==
    /\ [][state' = state]_vars
    /\ [][\E c \in Calls : \A d \in Calls \ {c} : Locals(d)' = Locals(d)]_vars
    /\ [](\A c \in Calls :
             /\ \A i \in 1..Len(lb_calls[c]) :
                   /\ DecodedFrom(read_secret[c], lb_calls[c][i].body.ssl_cert,
                                  lb_calls[c][i].body.ssl_key)
                   /\ lb_calls[c][i].body.ssl_cert = material[c].cert
                   /\ lb_calls[c][i].body.ssl_key = material[c].key
             /\ \A st \in Stages :
                   /\ Len(log[c][st]) <= 3
                   /\ ReturnedErr(c, st)
                      => Len(log[c][st]) = 3 /\ AllFailed(log[c][st])
             /\ pc[c] \in {"fetch", "fetch_sleep"}
                => attempt[c] = Len(log[c].fetch) + (IF pc[c] = "fetch" THEN 1 ELSE 0)
             /\ pc[c] \in {"update", "update_sleep"}
                => attempt[c] = Len(log[c].update) + (IF pc[c] = "update" THEN 1 ELSE 0))

\* c1 used up its 3 update attempts with the first secret's pair while c2,
\* interleaved with it, succeeded at its first tries with the second's.
C17_Witness ==
    /\ UpsertError("c1") /\ Len(lb_calls["c1"]) = 3
    /\ lb_calls["c1"][3].body.ssl_cert = <<65>>
    /\ lb_calls["c1"][3].body.ssl_key = <<66>>
    /\ FirstTrySuccess("c2")
    /\ lb_calls["c2"][1].body.ssl_cert = <<195, 169>>
    /\ lb_calls["c2"][1].body.ssl_key = <<68>>
    /\ lb_calls["c2"][1].epoch = 1 /\ lb_calls["c1"][1].epoch = 0

WellFormed == {SecretV1, SecretV2}

C19_SecretReadOnlyInFetchStage ==
    /\ [][\A c \in Calls :
             /\ HasOk(log[c].fetch)
                => /\ log'[c].fetch = log[c].fetch
                   /\ read_secret'[c] = read_secret[c]
                   /\ material'[c] = material[c]
             /\ Len(log'[c].fetch) = Len(log[c].fetch) + 1
                => /\ Last(log'[c].fetch) = "ok"
                      => /\ store \in WellFormed
                         /\ read_secret'[c] = store
                         /\ DecodedFrom(store, material'[c].cert,
                                        material'[c].key)
                   /\ store \in WellFormed /\ request[c] = SecretKey
                      => Last(log'[c].fetch) \in {"ok", "kube::Error::Service"}
                   /\ store \notin WellFormed
                      => Last(log'[c].fetch) # "ok"]_vars
    /\ [](\A c \in Calls : \A i \in 1..Len(lb_calls[c]) :
             /\ HasOk(log[c].fetch)
             /\ DecodedFrom(read_secret[c], lb_calls[c][i].body.ssl_cert,
                            lb_calls[c][i].body.ssl_key)
             /\ lb_calls[c][i].body = lb_calls[c][1].body)

\* The secret changed between the first and the second PUT of the call; the
\* retry still carries the pair of the secret the call read.
C19_Witness ==
    \E c \in Calls :
        /\ Len(lb_calls[c]) >= 2
        /\ lb_calls[c][1].epoch = 0 /\ lb_calls[c][2].epoch = 1
        /\ read_secret[c] = SecretV1 /\ store = SecretV2
        /\ lb_calls[c][2].body.ssl_cert = <<65>>
        /\ lb_calls[c][2].body.ssl_key = <<66>>

====
